---- MODULE Spec2Model ----
(***************************************************************************)
(* Veo Gallery (src/App.tsx, src/unnamed/part_000): the App component's    *)
(* state, the favorites persistence through localStorage, and the          *)
(* asynchronous generation workflow of handleSaveEdit and                  *)
(* generateVideoFromText.                                                  *)
(*                                                                         *)
(* Not modelled: searchQuery (the grid is taken with an empty query, which *)
(* shows the most videos), the description / prompt text of a video, and   *)
(* the key-selection button of the error modal.                            *)
(***************************************************************************)
EXTENDS Integers, Sequences, FiniteSets, TLC

VARIABLES
    lifecycle,         \* "start" | "rendered" | "mounted" | "crashed"
    slot,              \* localStorage[FAVORITES_STORAGE_KEY]
    favoriteVideoIds,  \* the Set, in insertion order, without duplicates
    generatedVideos,
    activeTab,
    playingVideo,
    editingVideo,
    isSaving,
    generationError,
    inflight,          \* the handleSaveEdit calls that have not returned yet
    minted,            \* how many identifiers crypto.randomUUID has produced
    batches,           \* history: batches[n] holds the identifiers of the n-th batch added
    uncaughtError      \* an exception left the component's code

vars == <<lifecycle, slot, favoriteVideoIds, generatedVideos, activeTab,
          playingVideo, editingVideo, isSaving, generationError, inflight,
          minted, batches, uncaughtError>>

(***************************************************************************)
(* Bounds of the model.                                                    *)
(***************************************************************************)
MaxVideos == 2      \* generations start only while fewer entries exist
MaxPolls == 1       \* polls that may answer "not done" per generation
MaxFavorites == 2   \* a toggle adds a favorite only while fewer are held

(***************************************************************************)
(* Program constants.                                                      *)
(***************************************************************************)
MaxNumberOfVideos == 4
NumberOfVideosOptions == 1..MaxNumberOfVideos
AspectRatioOptions == {"16:9", "9:16", "1:1", "4:3", "3:4"}
VEO_MODEL_NAME == "veo-2.0-generate-001"
Tabs == {"gallery", "creations", "favorites"}
GenerationErrorMessage ==
    <<"Veo is only available on the Paid Tier.",
      "Please select your Cloud Project to get started">>
NoError == <<>>

\* An optional value (T | null): <<>> is null, <<v>> is v.
None == <<>>
Some(v) == <<v>>

Range(s) == {s[k] : k \in 1..Len(s)}

MOCK_VIDEOS ==
    << [id |-> "m1", title |-> "Sunset", videoUrl |-> "sunset.mp4"] >>

(***************************************************************************)
(* JavaScript values and JSON text.  A JSON text is a string; identifiers  *)
(* hold no character that JSON.stringify would escape.                     *)
(***************************************************************************)
JSString(s) == [type |-> "string", text |-> s, items |-> <<>>]
JSNumber(s) == [type |-> "number", text |-> s, items |-> <<>>]
JSArray(xs) == [type |-> "array", text |-> "", items |-> xs]
JSObject == [type |-> "object", text |-> "", items |-> <<>>]
JSNull == [type |-> "null", text |-> "", items |-> <<>>]

Digits == {"0", "1", "2", "3", "4", "5", "6", "7", "8", "9"}
CharAt(s, i) == IF i >= 1 /\ i <= Len(s) THEN SubSeq(s, i, i) ELSE ""

RECURSIVE ScanQuote(_, _)
ScanQuote(s, i) ==
    IF i > Len(s) THEN 0
    ELSE IF CharAt(s, i) = "\"" THEN i
    ELSE ScanQuote(s, i + 1)

RECURSIVE ScanDigits(_, _)
ScanDigits(s, i) == IF CharAt(s, i) \in Digits THEN ScanDigits(s, i + 1) ELSE i

ParseFail == [ok |-> FALSE, value |-> JSNull, next |-> 0]
ParseOk(v, n) == [ok |-> TRUE, value |-> v, next |-> n]

RECURSIVE ParseValue(_, _)
RECURSIVE ParseItems(_, _, _)
ParseValue(s, i) ==
    LET c == CharAt(s, i) IN
    IF c = "\""
    THEN LET j == ScanQuote(s, i + 1) IN
         IF j = 0 THEN ParseFail
         ELSE ParseOk(JSString(SubSeq(s, i + 1, j - 1)), j + 1)
    ELSE IF c \in Digits
    THEN LET j == ScanDigits(s, i) IN ParseOk(JSNumber(SubSeq(s, i, j - 1)), j)
    ELSE IF c = "["
    THEN IF CharAt(s, i + 1) = "]" THEN ParseOk(JSArray(<<>>), i + 2)
         ELSE ParseItems(s, i + 1, <<>>)
    ELSE IF c = "{"
    THEN IF CharAt(s, i + 1) = "}" THEN ParseOk(JSObject, i + 2) ELSE ParseFail
    ELSE IF c = "n"
    THEN IF i + 3 <= Len(s) /\ SubSeq(s, i, i + 3) = "null"
         THEN ParseOk(JSNull, i + 4) ELSE ParseFail
    ELSE ParseFail
ParseItems(s, i, acc) ==
    LET r == ParseValue(s, i) IN
    IF ~r.ok THEN ParseFail
    ELSE IF CharAt(s, r.next) = "," THEN ParseItems(s, r.next + 1, Append(acc, r.value))
    ELSE IF CharAt(s, r.next) = "]" THEN ParseOk(JSArray(Append(acc, r.value)), r.next + 1)
    ELSE ParseFail

\* JSON.parse: ok is FALSE where it throws SyntaxError.
JSONParse(s) ==
    LET r == ParseValue(s, 1) IN
    IF r.ok /\ r.next = Len(s) + 1 THEN r ELSE ParseFail

RECURSIVE StringifyValue(_)
RECURSIVE StringifyItems(_)
StringifyValue(v) ==
    IF v.type = "string" THEN "\"" \o v.text \o "\""
    ELSE IF v.type = "number" THEN v.text
    ELSE IF v.type = "array" THEN "[" \o StringifyItems(v.items) \o "]"
    ELSE IF v.type = "object" THEN "{}"
    ELSE "null"
StringifyItems(xs) ==
    IF xs = <<>> THEN ""
    ELSE IF Len(xs) = 1 THEN StringifyValue(xs[1])
    ELSE StringifyValue(xs[1]) \o "," \o StringifyItems(Tail(xs))

RECURSIVE JoinTexts(_)
JoinTexts(xs) ==
    IF xs = <<>> THEN ""
    ELSE IF Len(xs) = 1 THEN xs[1].text
    ELSE xs[1].text \o "," \o JoinTexts(Tail(xs))

\* The array written without JSON.stringify: setItem coerces it to a string.
JSONStringify_Coerced(xs) == JoinTexts(xs)

\* JSON.stringify(Array.from(set))
JSONStringify(xs) == StringifyValue(JSArray(xs))

RECURSIVE Dedupe(_, _)
Dedupe(xs, acc) ==
    IF xs = <<>> THEN acc
    ELSE Dedupe(Tail(xs), IF Head(xs) \in Range(acc) THEN acc ELSE Append(acc, Head(xs)))

Chars(s) == [k \in 1..Len(s) |-> JSString(SubSeq(s, k, k))]

\* new Set(iterable): null gives the empty set, an array its items, a string
\* its characters; a number or an object is not iterable (TypeError).
NewSet(v) ==
    IF v.type = "null" THEN [threw |-> FALSE, set |-> <<>>]
    ELSE IF v.type = "array" THEN [threw |-> FALSE, set |-> Dedupe(v.items, <<>>)]
    ELSE IF v.type = "string" THEN [threw |-> FALSE, set |-> Dedupe(Chars(v.text), <<>>)]
    ELSE [threw |-> TRUE, set |-> <<>>]

\* localStorage.getItem: null for a missing key.
Missing == [present |-> FALSE, text |-> ""]
Stored(s) == [present |-> TRUE, text |-> s]

\* The useState initializer of favoriteVideoIds.
LoadFavorites(item) ==
    IF ~item.present \/ item.text = "" THEN <<>>
    ELSE LET p == JSONParse(item.text) IN
         IF ~p.ok THEN <<>>
         ELSE LET s == NewSet(p.value) IN
              IF s.threw THEN <<>> ELSE s.set

\* The persistence effect's write.
PersistFavorites(favs) == Stored(JSONStringify(favs))

Has(favs, videoId) == JSString(videoId) \in Range(favs)

RemoveValue(xs, v) == SelectSeq(xs, LAMBDA x : x # v)

\* The updater of handleToggleFavorite.
ToggleIn(favs, videoId) ==
    IF Has(favs, videoId) THEN RemoveValue(favs, JSString(videoId))
    ELSE Append(favs, JSString(videoId))

(***************************************************************************)
(* What a user may find in the slot when the page loads.                   *)
(***************************************************************************)
InitialSlots ==
    { Missing, Stored(""), Stored("not json"), Stored("{}"), Stored("7"),
      Stored("\"ab\""), Stored("[]"), Stored("[\"m1\"]") }

Init ==
    /\ lifecycle = "start"
    /\ slot \in InitialSlots
    /\ favoriteVideoIds = <<>>
    /\ generatedVideos = <<>>
    /\ activeTab = "gallery"
    /\ playingVideo = None
    /\ editingVideo = None
    /\ isSaving = FALSE
    /\ generationError = NoError
    /\ inflight = <<>>
    /\ minted = 0
    /\ batches = <<>>
    /\ uncaughtError = FALSE

\* The first render: the initializer reads the slot.
FirstRender ==
    /\ lifecycle = "start"
    /\ lifecycle' = "rendered"
    /\ favoriteVideoIds' = LoadFavorites(slot)
    /\ UNCHANGED <<slot, generatedVideos, activeTab, playingVideo, editingVideo,
                   isSaving, generationError, inflight, minted, batches,
                   uncaughtError>>

\* The persistence effect after the first commit.
MountEffect ==
    /\ lifecycle = "rendered"
    /\ lifecycle' = "mounted"
    /\ slot' = PersistFavorites(favoriteVideoIds)
    /\ UNCHANGED <<favoriteVideoIds, generatedVideos, activeTab, playingVideo,
                   editingVideo, isSaving, generationError, inflight, minted,
                   batches, uncaughtError>>

(***************************************************************************)
(* What App renders.                                                       *)
(***************************************************************************)
\* The early return of the Saving page left out.
SavingPage_NeverShown == FALSE

SavingPageShown == isSaving
EditPageShown == ~SavingPageShown /\ editingVideo # None
GalleryShown == ~SavingPageShown /\ editingVideo = None
PlayerShown == ~SavingPageShown /\ playingVideo # None
ErrorModalShown == ~SavingPageShown /\ generationError # NoError

allVideos == MOCK_VIDEOS \o generatedVideos
favoriteVideos == SelectSeq(allVideos, LAMBDA v : Has(favoriteVideoIds, v.id))
videosToDisplay ==
    IF activeTab = "gallery" THEN MOCK_VIDEOS
    ELSE IF activeTab = "creations" THEN generatedVideos
    ELSE favoriteVideos

\* The identifiers a rendered star button toggles: the cards of the grid and
\* the open player.
ToggleTargets ==
    (IF GalleryShown THEN {v.id : v \in Range(videosToDisplay)} ELSE {})
    \cup (IF PlayerShown THEN {playingVideo[1].id} ELSE {})

(***************************************************************************)
(* User events of the gallery.                                             *)
(***************************************************************************)
Ready == lifecycle = "mounted"

\* A tab button of the header.
SetActiveTab(tab) ==
    /\ Ready /\ GalleryShown
    /\ tab # activeTab
    /\ activeTab' = tab
    /\ UNCHANGED <<lifecycle, slot, favoriteVideoIds, generatedVideos, playingVideo,
                   editingVideo, isSaving, generationError, inflight, minted,
                   batches, uncaughtError>>

\* A card of the grid is clicked.
handlePlayVideo(video) ==
    /\ Ready /\ GalleryShown
    /\ video \in Range(videosToDisplay)
    /\ playingVideo # Some(video)
    /\ playingVideo' = Some(video)
    /\ UNCHANGED <<lifecycle, slot, favoriteVideoIds, generatedVideos, activeTab,
                   editingVideo, isSaving, generationError, inflight, minted,
                   batches, uncaughtError>>

handleClosePlayer ==
    /\ Ready /\ PlayerShown
    /\ playingVideo' = None
    /\ UNCHANGED <<lifecycle, slot, favoriteVideoIds, generatedVideos, activeTab,
                   editingVideo, isSaving, generationError, inflight, minted,
                   batches, uncaughtError>>

\* handleStartEdit without setPlayingVideo(null).
handleStartEdit_KeepsPlayer ==
    /\ Ready /\ PlayerShown
    /\ editingVideo' = playingVideo
    /\ UNCHANGED <<lifecycle, slot, favoriteVideoIds, generatedVideos, activeTab,
                   playingVideo, isSaving, generationError, inflight, minted,
                   batches, uncaughtError>>

\* The player's edit button, on the video it plays.
handleStartEdit ==
    /\ Ready /\ PlayerShown
    /\ playingVideo' = None
    /\ editingVideo' = playingVideo
    /\ UNCHANGED <<lifecycle, slot, favoriteVideoIds, generatedVideos, activeTab,
                   isSaving, generationError, inflight, minted, batches,
                   uncaughtError>>

handleCancelEdit ==
    /\ Ready /\ EditPageShown
    /\ editingVideo' = None
    /\ UNCHANGED <<lifecycle, slot, favoriteVideoIds, generatedVideos, activeTab,
                   playingVideo, isSaving, generationError, inflight, minted,
                   batches, uncaughtError>>

\* The close button of the error modal.
DismissError ==
    /\ Ready /\ ErrorModalShown
    /\ generationError' = NoError
    /\ UNCHANGED <<lifecycle, slot, favoriteVideoIds, generatedVideos, activeTab,
                   playingVideo, editingVideo, isSaving, inflight, minted, batches, uncaughtError>>

\* A star button: handleToggleFavorite, then the persistence effect.
handleToggleFavorite(videoId) ==
    /\ Ready
    /\ videoId \in ToggleTargets
    /\ Has(favoriteVideoIds, videoId) \/ Len(favoriteVideoIds) < MaxFavorites
    /\ favoriteVideoIds' = ToggleIn(favoriteVideoIds, videoId)
    /\ slot' = PersistFavorites(favoriteVideoIds')
    /\ UNCHANGED <<lifecycle, generatedVideos, activeTab, playingVideo, editingVideo,
                   isSaving, generationError, inflight, minted, batches,
                   uncaughtError>>

(***************************************************************************)
(* The generation workflow.                                                *)
(***************************************************************************)
\* handleSaveEdit up to its first await: the request of generateVideoFromText
\* is on its way to the service.  playingBefore, editingBefore and
\* generatedBefore are history: the state the user confirmed in.
handleSaveEdit(video, config) ==
    /\ editingVideo' = None
    /\ isSaving' = TRUE
    /\ generationError' = NoError
    /\ inflight' = Append(inflight,
          [ video |-> video,
            numberOfVideos |-> config.numberOfVideos,
            pc |-> "submitted",
            request |-> Some([ model |-> VEO_MODEL_NAME,
                               numberOfVideos |-> config.numberOfVideos,
                               aspectRatio |-> config.aspectRatio ]),
            polls |-> 0,
            nVideos |-> 0,
            completed |-> <<>>,
            playingBefore |-> playingVideo,
            editingBefore |-> editingVideo,
            generatedBefore |-> generatedVideos ])
    /\ UNCHANGED <<lifecycle, slot, favoriteVideoIds, generatedVideos, activeTab,
                   playingVideo, minted, batches, uncaughtError>>

\* EditVideoPage: the two selects and the "Generate new video" button.
EditPageSave(numberOfVideos, aspectRatio) ==
    /\ Ready /\ EditPageShown
    /\ Len(generatedVideos) < MaxVideos
    /\ numberOfVideos \in NumberOfVideosOptions
    /\ aspectRatio \in AspectRatioOptions
    /\ handleSaveEdit(editingVideo[1],
                      [numberOfVideos |-> numberOfVideos, aspectRatio |-> aspectRatio])

RemoveAt(xs, i) == [k \in 1..(Len(xs) - 1) |-> IF k < i THEN xs[k] ELSE xs[k + 1]]

\* The catch block putting the edit page back.
GenerationFails_ReopensEditor(i) ==
    /\ generationError' = GenerationErrorMessage
    /\ isSaving' = FALSE
    /\ editingVideo' = Some(inflight[i].video)
    /\ inflight' = RemoveAt(inflight, i)
    /\ UNCHANGED <<lifecycle, slot, favoriteVideoIds, generatedVideos, activeTab,
                   playingVideo, minted, batches, uncaughtError>>

\* Promise.allSettled in place of Promise.all: the videos fetched before the
\* failure are added.
GenerationFails_KeepsFetched(i) ==
    /\ generationError' = GenerationErrorMessage
    /\ isSaving' = FALSE
    /\ generatedVideos' =
          [k \in 1..Len(inflight[i].completed) |->
              [ id |-> "g" \o ToString(minted + k),
                title |-> inflight[i].video.title,
                videoUrl |-> "clip" \o ToString(inflight[i].completed[k]) ]]
          \o generatedVideos
    /\ minted' = minted + Len(inflight[i].completed)
    /\ inflight' = RemoveAt(inflight, i)
    /\ UNCHANGED <<lifecycle, slot, favoriteVideoIds, activeTab, playingVideo,
                   editingVideo, batches, uncaughtError>>

\* The catch block without the finally block: isSaving is left set.
GenerationFails_StaysSaving(i) ==
    /\ generationError' = GenerationErrorMessage
    /\ inflight' = RemoveAt(inflight, i)
    /\ UNCHANGED <<lifecycle, slot, favoriteVideoIds, generatedVideos, activeTab,
                   playingVideo, editingVideo, isSaving, minted, batches,
                   uncaughtError>>

\* The catch and finally blocks of handleSaveEdit.
GenerationFails(i) ==
    /\ generationError' = GenerationErrorMessage
    /\ isSaving' = FALSE
    /\ inflight' = RemoveAt(inflight, i)
    /\ UNCHANGED <<lifecycle, slot, favoriteVideoIds, generatedVideos, activeTab,
                   playingVideo, editingVideo, minted, batches,
                   uncaughtError>>

\* The payload the service holds for the j-th video of an operation.
ServicePayload(j) == "clip" \o ToString(j)

RECURSIVE FindComma(_, _)
FindComma(s, i) ==
    IF i > Len(s) THEN Len(s) + 1
    ELSE IF CharAt(s, i) = "," THEN i
    ELSE FindComma(s, i + 1)

\* FileReader.readAsDataURL, then url.split(',')[1].
bloblToBase64(blob) ==
    LET url == "data:video/mp4;base64," \o blob
        first == FindComma(url, 1)
        second == FindComma(url, first + 1)
    IN  SubSeq(url, first + 1, second - 1)

\* The values in the order the fetches completed.
PromiseAll_CompletionOrder(nVideos, completed) ==
    [k \in 1..nVideos |-> bloblToBase64(ServicePayload(completed[k]))]

\* Promise.all over videos.map: the j-th value belongs to the j-th video,
\* in whatever order the fetches completed.
PromiseAll(nVideos, completed) ==
    [j \in 1..nVideos |-> bloblToBase64(ServicePayload(j))]

UUID(n) == "g" \o ToString(n)

\* The title expression of handleSaveEdit; index counts from 0.
RemixTitle(title, numberOfVideos, index) ==
    IF numberOfVideos > 1
    THEN "Remix of \"" \o title \o "\" (" \o ToString(index + 1) \o "/"
         \o ToString(numberOfVideos) \o ")"
    ELSE "Remix of \"" \o title \o "\""

NewVideos(op, videoObjects) ==
    [k \in 1..Len(videoObjects) |->
        [ id |-> UUID(minted + k),
          title |-> RemixTitle(op.video.title, op.numberOfVideos, k - 1),
          videoUrl |-> "data:video/mp4;base64," \o videoObjects[k] ]]

\* [...currentVideos, ...newVideos]
Prepend_Appends(newVideos, currentVideos) == currentVideos \o newVideos

\* setGeneratedVideos((currentVideos) => [...newVideos, ...currentVideos])
Prepend(newVideos, currentVideos) == newVideos \o currentVideos

\* handleSaveEdit after generateVideoFromText has returned videoObjects.
GenerationReturns(i, videoObjects) ==
    IF Len(videoObjects) = 0
    THEN GenerationFails(i)
    ELSE LET newVideos == NewVideos(inflight[i], videoObjects) IN
         /\ generatedVideos' = Prepend(newVideos, generatedVideos)
         /\ activeTab' = "creations"
         /\ playingVideo' = Some(newVideos[1])
         /\ isSaving' = FALSE
         /\ inflight' = RemoveAt(inflight, i)
         /\ minted' = minted + Len(videoObjects)
         /\ batches' = Append(batches, {v.id : v \in Range(newVideos)})
         /\ UNCHANGED <<lifecycle, slot, favoriteVideoIds, editingVideo,
                        generationError, uncaughtError>>

\* The operations the service may answer with.  response is "absent" when the
\* operation carries none, "undefined" when it carries no generatedVideos.
Operations ==
    { [done |-> FALSE, response |-> "absent", nVideos |-> 0],
      [done |-> TRUE, response |-> "absent", nVideos |-> 0],
      [done |-> TRUE, response |-> "undefined", nVideos |-> 0] }
    \cup { [done |-> TRUE, response |-> "videos", nVideos |-> n] :
             n \in 0..(MaxVideos - Len(generatedVideos)) }

\* generateVideoFromText from the moment it holds an operation: the loop test,
\* and once done the checks of the response and the start of the fetches.
HoldOperation(i, operation) ==
    IF ~operation.done
    THEN /\ inflight' = [inflight EXCEPT ![i].pc = "polling", ![i].request = None]
         /\ UNCHANGED <<lifecycle, slot, favoriteVideoIds, generatedVideos,
                        activeTab, playingVideo, editingVideo, isSaving,
                        generationError, minted, batches, uncaughtError>>
    ELSE IF operation.response # "videos" \/ operation.nVideos = 0
    THEN GenerationFails(i)
    ELSE /\ inflight' = [inflight EXCEPT ![i].pc = "fetching", ![i].request = None,
                                         ![i].nVideos = operation.nVideos]
         /\ UNCHANGED <<lifecycle, slot, favoriteVideoIds, generatedVideos,
                        activeTab, playingVideo, editingVideo, isSaving,
                        generationError, minted, batches, uncaughtError>>

\* ai.models.generateVideos rejects.
GenerateVideosRejects(i) ==
    /\ lifecycle # "crashed"
    /\ i \in 1..Len(inflight)
    /\ inflight[i].pc = "submitted"
    /\ GenerationFails(i)

\* ai.models.generateVideos resolves.
GenerateVideosResolves(i, operation) ==
    /\ lifecycle # "crashed"
    /\ i \in 1..Len(inflight)
    /\ inflight[i].pc = "submitted"
    /\ operation \in Operations
    /\ HoldOperation(i, operation)

\* The timer fires and ai.operations.getVideosOperation resolves.
PollResolves(i, operation) ==
    /\ lifecycle # "crashed"
    /\ i \in 1..Len(inflight)
    /\ inflight[i].pc = "polling"
    /\ operation \in Operations
    /\ IF operation.done
       THEN HoldOperation(i, operation)
       ELSE /\ inflight[i].polls < MaxPolls
            /\ inflight' = [inflight EXCEPT ![i].polls = @ + 1]
            /\ UNCHANGED <<lifecycle, slot, favoriteVideoIds, generatedVideos,
                           activeTab, playingVideo, editingVideo, isSaving,
                           generationError, minted, batches, uncaughtError>>

\* ai.operations.getVideosOperation rejects.
PollRejects(i) ==
    /\ lifecycle # "crashed"
    /\ i \in 1..Len(inflight)
    /\ inflight[i].pc = "polling"
    /\ GenerationFails(i)

\* The fetch of the j-th video answers ok and its blob is encoded.
FetchOk(i, j) ==
    /\ lifecycle # "crashed"
    /\ i \in 1..Len(inflight)
    /\ inflight[i].pc = "fetching"
    /\ j \in 1..inflight[i].nVideos
    /\ j \notin Range(inflight[i].completed)
    /\ LET completed == Append(inflight[i].completed, j) IN
       IF Len(completed) = inflight[i].nVideos
       THEN GenerationReturns(i, PromiseAll(inflight[i].nVideos, completed))
       ELSE /\ inflight' = [inflight EXCEPT ![i].completed = completed]
            /\ UNCHANGED <<lifecycle, slot, favoriteVideoIds, generatedVideos,
                           activeTab, playingVideo, editingVideo, isSaving,
                           generationError, minted, batches, uncaughtError>>

\* The fetch of the j-th video answers with a status that is not ok, or fails.
FetchNotOk(i, j) ==
    /\ lifecycle # "crashed"
    /\ i \in 1..Len(inflight)
    /\ inflight[i].pc = "fetching"
    /\ j \in 1..inflight[i].nVideos
    /\ j \notin Range(inflight[i].completed)
    /\ GenerationFails(i)

UserEvent ==
    \/ \E tab \in Tabs : SetActiveTab(tab)
    \/ \E video \in Range(allVideos) : handlePlayVideo(video)
    \/ handleClosePlayer
    \/ handleStartEdit
    \/ handleCancelEdit
    \/ DismissError
    \/ \E video \in Range(allVideos) : handleToggleFavorite(video.id)
    \/ \E n \in NumberOfVideosOptions, r \in AspectRatioOptions : EditPageSave(n, r)

ServiceEvent ==
    \E i \in 1..Len(inflight) :
        \/ GenerateVideosRejects(i)
        \/ \E operation \in Operations : GenerateVideosResolves(i, operation)
        \/ \E operation \in Operations : PollResolves(i, operation)
        \/ PollRejects(i)
        \/ \E j \in 1..MaxVideos : FetchNotOk(i, j)
        \/ \E j \in 1..MaxVideos : FetchOk(i, j)

Next == FirstRender \/ MountEffect \/ UserEvent \/ ServiceEvent

Spec == Init /\ [][Next]_vars

(***************************************************************************)
(* The store failing.  getItem throws inside the initializer's try; setItem *)
(* throws inside the effect, which has no try: React reports the error and  *)
(* unmounts the component.                                                  *)
(***************************************************************************)
FirstRenderReadThrows ==
    /\ lifecycle = "start"
    /\ lifecycle' = "rendered"
    /\ favoriteVideoIds' = <<>>
    /\ UNCHANGED <<slot, generatedVideos, activeTab, playingVideo, editingVideo,
                   isSaving, generationError, inflight, minted, batches,
                   uncaughtError>>

MountEffectWriteThrows ==
    /\ lifecycle = "rendered"
    /\ lifecycle' = "crashed"
    /\ uncaughtError' = TRUE
    /\ UNCHANGED <<slot, favoriteVideoIds, generatedVideos, activeTab, playingVideo,
                   editingVideo, isSaving, generationError, inflight, minted,
                   batches>>

ToggleWriteThrows(videoId) ==
    /\ Ready
    /\ videoId \in ToggleTargets
    /\ Has(favoriteVideoIds, videoId) \/ Len(favoriteVideoIds) < MaxFavorites
    /\ favoriteVideoIds' = ToggleIn(favoriteVideoIds, videoId)
    /\ lifecycle' = "crashed"
    /\ uncaughtError' = TRUE
    /\ UNCHANGED <<slot, generatedVideos, activeTab, playingVideo, editingVideo,
                   isSaving, generationError, inflight, minted, batches>>

StoreFault ==
    \/ FirstRenderReadThrows
    \/ MountEffectWriteThrows
    \/ \E video \in Range(allVideos) : ToggleWriteThrows(video.id)

NextStoreFault == Next \/ StoreFault

SpecStoreFault == Init /\ [][NextStoreFault]_vars

(***************************************************************************)
(* onSave called with a configuration the two selects do not offer (a      *)
(* caller other than the unmodified form).                                 *)
(***************************************************************************)
OtherNumbersOfVideos == {0, MaxNumberOfVideos + 1}
OtherAspectRatios == {"21:9"}

DirectSave(numberOfVideos, aspectRatio) ==
    /\ Ready /\ EditPageShown
    /\ Len(generatedVideos) < MaxVideos
    /\ \/ numberOfVideos \in OtherNumbersOfVideos
       \/ aspectRatio \in OtherAspectRatios
    /\ handleSaveEdit(editingVideo[1],
                      [numberOfVideos |-> numberOfVideos, aspectRatio |-> aspectRatio])

NextDirect ==
    \/ Next
    \/ \E n \in NumberOfVideosOptions \cup OtherNumbersOfVideos,
          r \in AspectRatioOptions \cup OtherAspectRatios : DirectSave(n, r)

SpecDirect == Init /\ [][NextDirect]_vars

(***************************************************************************)
(* Steps of the workflow, for the properties below.                        *)
(***************************************************************************)
\* The attempt inflight[i] ends in failure with this step.
FailureStep(i) ==
    \/ GenerateVideosRejects(i)
    \/ PollRejects(i)
    \/ \E j \in 1..inflight[i].nVideos : FetchNotOk(i, j)
    \/ \E operation \in Operations :
          /\ operation.done
          /\ operation.response # "videos" \/ operation.nVideos = 0
          /\ GenerateVideosResolves(i, operation) \/ PollResolves(i, operation)

\* The attempt inflight[i] ends in success with this step: its last fetch.
SuccessStep(i) ==
    /\ \E j \in 1..inflight[i].nVideos : FetchOk(i, j)
    /\ Len(inflight') < Len(inflight)

PositionOf(id) == CHOOSE k \in 1..Len(generatedVideos) : generatedVideos[k].id = id

\* Every entry of a later batch stands before every entry of an earlier one.
BatchesOrdered ==
    \A m, n \in 1..Len(batches) :
        m < n => \A x \in batches[n], y \in batches[m] : PositionOf(x) < PositionOf(y)

\* C1: a successful generation ends in Browsing with the new entries before
\* all earlier ones, the creations tab active and the first new entry
\* playing; later batches stand before earlier batches.
C1_SuccessPrepends ==
    [][\A i \in 1..Len(inflight) : SuccessStep(i) =>
          LET added == Len(generatedVideos') - Len(generatedVideos) IN
          /\ isSaving' = FALSE
          /\ editingVideo' = None
          /\ added >= 1
          /\ SubSeq(generatedVideos', added + 1, Len(generatedVideos')) = generatedVideos
          /\ {generatedVideos'[k].id : k \in 1..added}
                \cap {v.id : v \in Range(generatedVideos)} = {}
          /\ activeTab' = "creations"
          /\ playingVideo' = Some(generatedVideos'[1])
          /\ BatchesOrdered']_vars

\* C1: two batches have been added and the last success has just ended.
C1_Witness ==
    /\ Len(batches) > 1
    /\ ~isSaving
    /\ activeTab = "creations"
    /\ playingVideo = Some(generatedVideos[1])

\* C2: a failed generation leaves generatedVideos as it was before the
\* attempt, sets generationError and ends Saving.
C2_FailureAddsNothing ==
    [][\A i \in 1..Len(inflight) : FailureStep(i) =>
          /\ generatedVideos' = inflight[i].generatedBefore
          /\ generationError' # NoError
          /\ isSaving' = FALSE]_vars

\* C2: a generation has failed while earlier entries exist.
C2_Witness ==
    /\ generationError # NoError
    /\ ~isSaving
    /\ inflight = <<>>
    /\ generatedVideos # <<>>

\* C3 as claimed: after a failed generation playingVideo and editingVideo are
\* what they were when the user confirmed.
C3_FailureRestoresPlayerAndEditor ==
    [][\A i \in 1..Len(inflight) : FailureStep(i) =>
          /\ playingVideo' = inflight[i].playingBefore
          /\ editingVideo' = inflight[i].editingBefore]_vars

\* C3 amended: after a failed generation playingVideo is what it was when the
\* user confirmed, and editingVideo is null, not the video that was edited.
C3_FailureKeepsPlayerClosesEditor ==
    [][\A i \in 1..Len(inflight) : FailureStep(i) =>
          /\ playingVideo' = inflight[i].playingBefore
          /\ playingVideo' = None
          /\ inflight[i].editingBefore = Some(inflight[i].video)
          /\ editingVideo' = None]_vars

\* C3: a generation has failed; the editor and the player are closed.
C3_Witness ==
    /\ generationError # NoError
    /\ ~isSaving
    /\ inflight = <<>>
    /\ editingVideo = None
    /\ playingVideo = None

\* C4: at most one generation is in flight; while it is, the Saving page
\* replaces the edit page, the player and the gallery.
C4_SingleFlight ==
    /\ Len(inflight) <= 1
    /\ isSaving <=> inflight # <<>>
    /\ inflight # <<>> => ~EditPageShown /\ ~PlayerShown /\ ~GalleryShown

\* C4: a second generation is in flight, fetching its videos.
C4_Witness ==
    /\ Len(inflight) = 1
    /\ inflight[1].pc = "fetching"
    /\ generatedVideos # <<>>

\* C5: once mounted, the slot holds the serialization of the favorites set,
\* and loading the slot gives the favorites set back.
C5_SlotRoundTrip ==
    lifecycle = "mounted" =>
        /\ slot = Stored(JSONStringify(favoriteVideoIds))
        /\ LoadFavorites(slot) = favoriteVideoIds

\* C5: toggles have left two favorites, one of them a generated video.
C5_Witness ==
    /\ lifecycle = "mounted"
    /\ Len(favoriteVideoIds) > 1
    /\ \E v \in Range(generatedVideos) : Has(favoriteVideoIds, v.id)

\* The text is a JSON array of strings.
IsIdentifierArray(item) ==
    /\ item.present
    /\ JSONParse(item.text).ok
    /\ JSONParse(item.text).value.type = "array"
    /\ \A x \in Range(JSONParse(item.text).value.items) : x.type = "string"

\* C6: a slot that is missing or holds anything but an array of identifiers
\* loads as the empty set, and no error leaves the initializer.
C6_InvalidSlotLoadsEmpty ==
    lifecycle = "rendered" /\ ~IsIdentifierArray(slot) =>
        favoriteVideoIds = <<>> /\ ~uncaughtError

\* C7: a failing read or write of the store never leaves the component, and
\* the favorites set stays usable.
C7_StoreFailureSwallowed == ~uncaughtError /\ lifecycle # "crashed"

\* The entries a success step adds, first to last.
AddedBy(i) == SubSeq(generatedVideos', 1, Len(generatedVideos') - Len(generatedVideos))

TitlesFollowRule(added, title, numberOfVideos) ==
    \A k \in 1..Len(added) :
        added[k].title =
            IF numberOfVideos = 1
            THEN "Remix of \"" \o title \o "\""
            ELSE "Remix of \"" \o title \o "\" (" \o ToString(k) \o "/"
                 \o ToString(numberOfVideos) \o ")"

InServiceOrder(added) ==
    \A k \in 1..Len(added) :
        added[k].videoUrl = "data:video/mp4;base64," \o ServicePayload(k)

\* C8 as claimed: a success with N requested adds exactly N entries, in the
\* service's order, titled by the rule.
C8_ExactlyRequestedCount ==
    [][\A i \in 1..Len(inflight) : SuccessStep(i) =>
          /\ Len(AddedBy(i)) = inflight[i].numberOfVideos
          /\ InServiceOrder(AddedBy(i))
          /\ TitlesFollowRule(AddedBy(i), inflight[i].video.title,
                              inflight[i].numberOfVideos)]_vars

\* C8 amended: a success adds exactly as many entries as the service returned
\* videos, in the service's order whatever order the fetches completed in,
\* titled by the rule with the requested N.
C8_ReturnedCountInOrder ==
    [][\A i \in 1..Len(inflight) : SuccessStep(i) =>
          /\ Len(AddedBy(i)) = inflight[i].nVideos
          /\ InServiceOrder(AddedBy(i))
          /\ TitlesFollowRule(AddedBy(i), inflight[i].video.title,
                              inflight[i].numberOfVideos)]_vars

\* C8: two entries of one batch, added under a request for three.
C8_Witness ==
    /\ ~isSaving
    /\ Len(generatedVideos) > 1
    /\ Len(batches) = 1
    /\ generatedVideos[1].title = "Remix of \"Sunset\" (1/3)"
    /\ generatedVideos[1].videoUrl = "data:video/mp4;base64,clip1"

\* C9 as claimed: in Browsing, Editing and Saving alike a favorites toggle is
\* available (in Browsing, when the tab has a video to show).
C9_ToggleAlwaysAvailable ==
    lifecycle = "mounted" /\ (isSaving \/ editingVideo # None \/ videosToDisplay # <<>>)
        => ToggleTargets # {}

\* C9 amended: no favorites toggle is available in Editing or Saving; in
\* Browsing one is available for every video of the grid and for the playing
\* video.
C9_ToggleOnlyInBrowsing ==
    lifecycle = "mounted" =>
        /\ isSaving \/ editingVideo # None => ToggleTargets = {}
        /\ ~isSaving /\ editingVideo = None =>
              /\ \A v \in Range(videosToDisplay) : v.id \in ToggleTargets
              /\ playingVideo # None => playingVideo[1].id \in ToggleTargets

\* C9: the edit page is open on a later generation and shows no toggle.
C9_Witness ==
    /\ lifecycle = "mounted"
    /\ editingVideo # None
    /\ generatedVideos # <<>>
    /\ ToggleTargets = {}

\* C10: every request on its way to the service asks for 1 to 4 videos in
\* one of the five aspect ratios.
C10_RequestsValid ==
    \A i \in 1..Len(inflight) :
        inflight[i].request # None =>
            /\ inflight[i].request[1].numberOfVideos \in NumberOfVideosOptions
            /\ inflight[i].request[1].aspectRatio \in AspectRatioOptions

(***************************************************************************)
(* Every remote call in flight is eventually answered: generateVideos,     *)
(* getVideosOperation and each fetch resolve or reject.  The service       *)
(* reports done after at most MaxPolls answers of "not done".              *)
(***************************************************************************)
SpecLive == Init /\ [][Next]_vars /\ WF_vars(ServiceEvent)

====
